---------------------------- MODULE Spec2Model ----------------------------
(***************************************************************************)
(* Model of src/lib/api.ts: the three asynchronous client functions        *)
(* getGeminiAssessment, analyzeImage and checkServerHealth, the pure       *)
(* helper getFallbackAssessment, and the section parser of the Gemini      *)
(* reply.                                                                  *)
(*                                                                         *)
(* Strings are sequences of pieces (each piece a TLA+ string), so that     *)
(* interpolation is concatenation and "contains" is membership.  The text  *)
(* of a Gemini reply is a sequence of tokens: a label in some letter case, *)
(* a whitespace character, or a word.                                      *)
(***************************************************************************)
EXTENDS Integers, Sequences, FiniteSets

\* Number of invocations that may overlap.
MaxCalls == 2
\* Number of sections (an optional label followed by some content) from
\* which the reply texts of ParseSpec are assembled.
MaxSections == 3

CallIds == 1..MaxCalls

-----------------------------------------------------------------------------
(* JavaScript values that occur in decoded bodies *)

Undefined == [t |-> "undefined"]
Str(s) == [t |-> "string", s |-> s]
Num(n) == [t |-> "number", n |-> n]
\* An array of n plain objects (FastAPI's validation errors have this shape).
ObjArray(n) == [t |-> "array", n |-> n]

\* ToBoolean, as applied by the operator ||
Truthy(v) ==
    CASE v.t = "undefined" -> FALSE
      [] v.t = "string" -> v.s # <<>>
      [] v.t = "number" -> v.n # 0
      [] OTHER -> TRUE

RECURSIVE JoinObjects(_)
JoinObjects(n) ==
    IF n = 0 THEN <<>>
    ELSE IF n = 1 THEN <<"[object Object]">>
    ELSE JoinObjects(n - 1) \o <<",", "[object Object]">>

NumberToString(n) ==
    CASE n = 0 -> "0"
      [] n = 7 -> "7"
      [] n = 200 -> "200"
      [] n = 404 -> "404"
      [] n = 422 -> "422"
      [] n = 500 -> "500"
      [] OTHER -> "NaN"

\* ToString, as applied by new Error(message) and by template literals
JsToString(v) ==
    CASE v.t = "string" -> v.s
      [] v.t = "number" -> <<NumberToString(v.n)>>
      [] v.t = "array" -> JoinObjects(v.n)
      [] OTHER -> <<"undefined">>

\* A decoded JSON value: null, or an object of which the model keeps the
\* members the code reads (detail, candidates[0].content.parts[0].text) and
\* an identifier of everything else in it.
JsonNull == [t |-> "null"]
JsonObject(id, detail, text) ==
    [t |-> "object", id |-> id, detail |-> detail, text |-> text]
EmptyObject == JsonObject("{}", Undefined, Undefined)

\* A response body as it is on the wire: well-formed JSON text of a value,
\* or something JSON.parse rejects.
JsonText(v) == [wellFormed |-> TRUE, value |-> v]
Garbage == [wellFormed |-> FALSE, value |-> JsonNull]

-----------------------------------------------------------------------------
(* The section parser, api.ts lines 80-89 *)

DescriptionLabels == {"DESCRIPTION:", "description:"}
CauseLabels == {"CAUSE:", "cause:"}
RemedyLabels == {"REMEDY:", "Remedy:"}
LabelTokens == DescriptionLabels \cup CauseLabels \cup RemedyLabels
SpaceTokens == {" ", "\n"}

\* The patterns without the /i flag.
FoldCaseExact(tok) == tok

\* Letter-case folding of a token, the /i flag of the three patterns.
FoldCase(tok) ==
    CASE tok \in DescriptionLabels -> "DESCRIPTION:"
      [] tok \in CauseLabels -> "CAUSE:"
      [] tok \in RemedyLabels -> "REMEDY:"
      [] OTHER -> tok

\* First position from i on whose token is one of `labels`, Len(text) + 1
\* when there is none.
RECURSIVE FirstLabelFrom(_, _, _)
FirstLabelFrom(text, i, labels) ==
    IF i > Len(text) THEN Len(text) + 1
    ELSE IF FoldCase(text[i]) \in labels THEN i
    ELSE FirstLabelFrom(text, i + 1, labels)

\* \s* : first position from i on that holds no whitespace.
RECURSIVE SkipSpace(_, _)
SkipSpace(text, i) ==
    IF i <= Len(text) /\ text[i] \in SpaceTokens
    THEN SkipSpace(text, i + 1)
    ELSE i

\* String.prototype.trim
RECURSIVE TrimEnd(_)
TrimEnd(s) ==
    IF s # <<>> /\ s[Len(s)] \in SpaceTokens
    THEN TrimEnd(SubSeq(s, 1, Len(s) - 1))
    ELSE s

Trim(s) == TrimEnd(SubSeq(s, SkipSpace(s, 1), Len(s)))

NoMatch == [matched |-> FALSE, group |-> <<>>]

\* text.match(/LABEL:\s*([\s\S]*?)(?=STOP:|$)/i): the leftmost LABEL:, the
\* whitespace after it (greedy), then the shortest text that is followed by
\* STOP: or by the end of the input.  `stops` is empty for /...([\s\S]*?)$/.
Match(text, label, stops) ==
    LET i == FirstLabelFrom(text, 1, {label})
    IN IF i > Len(text) THEN NoMatch
       ELSE LET j == SkipSpace(text, i + 1)
                k == FirstLabelFrom(text, j, stops)
            IN [matched |-> TRUE, group |-> SubSeq(text, j, k - 1)]

DefaultDescription == <<"Assessment not available.">>
DefaultCause == <<"Cause assessment not available.">>
DefaultRemedy == <<"Please consult with a healthcare professional.">>

\* match?.[1]?.trim() ?? fallback: the default only when nothing matched.
GroupOrNullish(m, default) == IF m.matched THEN Trim(m.group) ELSE default

\* match?.[1]?.trim() || fallback
GroupOr(m, default) ==
    IF m.matched /\ Trim(m.group) # <<>> THEN Trim(m.group) ELSE default

Assessment(d, c, r) ==
    [t |-> "assessment", description |-> d, cause |-> c, remedy |-> r]

DescriptionMatch(text) == Match(text, "DESCRIPTION:", {"CAUSE:"})
CauseMatch(text) == Match(text, "CAUSE:", {"REMEDY:"})
RemedyMatch(text) == Match(text, "REMEDY:", {})

ParseAssessment(text) ==
    Assessment(GroupOr(DescriptionMatch(text), DefaultDescription),
               GroupOr(CauseMatch(text), DefaultCause),
               GroupOr(RemedyMatch(text), DefaultRemedy))

-----------------------------------------------------------------------------
(* getFallbackAssessment, api.ts lines 99-133 *)

KnownLabels == {"No DR", "Mild", "Moderate", "Severe", "Proliferative DR"}

\* The own properties of the object literal `assessments`.
AssessmentsTable(label) ==
    CASE label = "No DR" -> Assessment(
           <<"Your retinal scan shows no signs of diabetic retinopathy. The blood vessels in your retina appear healthy without any diabetes-related damage. This is an excellent result, but continued monitoring is important as diabetic retinopathy can develop over time in people with diabetes.">>,
           <<"Not applicable - no diabetic retinopathy detected. Your current diabetes management appears to be effectively protecting your eye health.">>,
           <<"Maintain regular annual eye exams and keep your blood sugar levels well controlled.">>)
      [] label = "Mild" -> Assessment(
           <<"Your scan indicates mild non-proliferative diabetic retinopathy (NPDR). Small areas of balloon-like swelling called microaneurysms have been detected in the retina's blood vessels. At this early stage, there is typically no noticeable vision loss, but it signals that diabetes is beginning to affect your eyes.">>,
           <<"This early stage may be caused by prolonged periods of elevated blood sugar levels, which weaken the tiny blood vessels in the retina. Contributing factors could include inconsistent diabetes management, high blood pressure, or duration of diabetes.">>,
           <<"Schedule a follow-up with your ophthalmologist within 6-12 months and focus on strict blood sugar control.">>)
      [] label = "Moderate" -> Assessment(
           <<"Moderate non-proliferative diabetic retinopathy has been detected. The blood vessels in your retina are showing more significant damage, with some vessels becoming blocked. This can lead to reduced blood flow to parts of your retina and may start affecting your vision quality.">>,
           <<"Progression to this stage is typically associated with chronic hyperglycemia over several years, combined with factors like uncontrolled hypertension, high cholesterol, or smoking. Inadequate diabetes management accelerates vessel damage.">>,
           <<"Consult your ophthalmologist within 3-6 months for detailed examination and potential treatment planning.">>)
      [] label = "Severe" -> Assessment(
           <<"Your scan reveals severe non-proliferative diabetic retinopathy. Many blood vessels in your retina are blocked, depriving several areas of adequate blood supply. This significantly increases the risk of progression to proliferative diabetic retinopathy and potential vision loss.">>,
           <<"Severe retinopathy usually results from years of poorly controlled diabetes with persistent high blood sugar, often compounded by hypertension and kidney disease. The extensive blockage indicates significant cumulative damage to retinal blood vessels.">>,
           <<"Seek urgent consultation with a retina specialist within 2-4 weeks for possible laser treatment or injections.">>)
      [] label = "Proliferative DR" -> Assessment(
           <<"Proliferative diabetic retinopathy (PDR), the most advanced stage, has been detected. New, abnormal blood vessels are growing on the retina's surface. These fragile vessels can leak blood into the eye and cause retinal detachment, leading to severe vision loss or blindness if untreated.">>,
           <<"PDR develops when severe oxygen deprivation triggers abnormal blood vessel growth. This typically results from long-standing diabetes with poor glycemic control, often combined with hypertension, nephropathy, and delayed treatment of earlier retinopathy stages.">>,
           <<"Seek immediate medical attention from a retina specialist for urgent treatment including laser therapy or vitrectomy.">>)

GenericCause == <<"Diabetic retinopathy is generally caused by prolonged high blood sugar levels damaging the blood vessels in the retina. Contributing factors may include duration of diabetes, blood pressure, cholesterol levels, and overall diabetes management.">>
GenericRemedy == <<"Please consult with an ophthalmologist for a comprehensive eye examination and treatment plan.">>

\* The object of the last return statement, with the label interpolated.
GenericAssessment(classification) ==
    Assessment(
      <<classification, " has been detected in your retinal scan. This condition affects the blood vessels in the retina and may impact your vision if left untreated. The severity level indicates how much the retina has been affected by diabetes-related changes.">>,
      GenericCause, GenericRemedy)

\* `assessments` is an object literal, so its prototype is Object.prototype:
\* a key that is not an own property is looked up there.  Each member below
\* is a function, except __proto__, which yields Object.prototype itself;
\* all of them are truthy.
ObjectPrototypeMembers ==
    {"constructor", "toString", "toLocaleString", "valueOf", "hasOwnProperty",
     "isPrototypeOf", "propertyIsEnumerable", "__proto__", "__defineGetter__",
     "__defineSetter__", "__lookupGetter__", "__lookupSetter__"}

Inherited(name) == [t |-> "inherited", name |-> name]

\* assessments[classification]
PropertyLookup(key) ==
    IF key \in KnownLabels THEN AssessmentsTable(key)
    ELSE IF key \in ObjectPrototypeMembers THEN Inherited(key)
    ELSE Undefined

\* assessments[classification] || { ...generic... }
getFallbackAssessment(classification) ==
    LET entry == PropertyLookup(classification)
    IN IF entry.t # "undefined" THEN entry
       ELSE GenericAssessment(classification)

-----------------------------------------------------------------------------
(* Configuration, api.ts lines 7-11, with the environment unset *)

API_URL == "https://SairamDev-selfie-dr.hf.space"
GEMINI_API_KEY == ""
GEMINI_API_URL == "https://generativelanguage.googleapis.com/v1beta/models/gemini-1.5-flash-latest:generateContent"

GeminiEndpoint == <<GEMINI_API_URL, "?key=", GEMINI_API_KEY>>
PredictEndpoint == <<API_URL, "/predict">>
HealthEndpoint == <<API_URL, "/health">>

-----------------------------------------------------------------------------
(* State *)

\* calls[c]: one invocation of a public function: its arguments, where its
\*           async body is suspended, what its fetch and its response.json()
\*           gave it, how it settled, how many requests it issued and what
\*           it wrote to the console.
\* net:      the HTTP requests in flight.
VARIABLES calls, net

vars == <<calls, net>>

Pending == [kind |-> "pending"]
Resolved(v) == [kind |-> "resolved", value |-> v]
Rejected(e) == [kind |-> "rejected", error |-> e]

Error(name, message) == [name |-> name, message |-> message]
\* What fetch rejects with when the transport fails.
NetworkError == Error("TypeError", <<"Failed to fetch">>)
\* What response.json() rejects with on a body that is not JSON.
JsonSyntaxError == Error("SyntaxError", <<"Unexpected token in JSON">>)
\* Reading a property of null.
NullPropertyError(prop) ==
    Error("TypeError", <<"Cannot read properties of null (reading '", prop, "')">>)

NoResponse == [fetch |-> "none", status |-> 0, read |-> FALSE, body |-> Garbage]

IdleCall ==
    [fn |-> "idle", arg |-> "", pc |-> "idle", resp |-> NoResponse,
     outcome |-> Pending, sent |-> 0, log |-> <<>>]

Request(c, method, url, payload) ==
    [owner |-> c, method |-> method, url |-> url, payload |-> payload]

\* response.ok
Ok(status) == status \in 200..299

-----------------------------------------------------------------------------
(* Inputs *)

Classifications == {"Mild", "Unknown Stage X", "constructor"}
\* The labels of FallbackSpec: every key of the table, labels that are no
\* key of anything, and every name Object.prototype defines.
FallbackClassifications ==
    KnownLabels \cup {"Unknown Stage X", "mild"} \cup ObjectPrototypeMembers
Files == {"retina.png"}
Statuses == {200, 422, 500}

WellFormedReply ==
    <<"DESCRIPTION:", " ", "x", "\n", "cause:", " ", "x", "\n", "REMEDY:", " ", "x">>
ReplyWithoutCause == <<"DESCRIPTION:", " ", "x", "\n", "REMEDY:", " ", "x">>

GeminiReply(text) == JsonText(JsonObject("generateContent", Undefined, text))

GeminiBodies ==
    {Garbage, JsonText(JsonNull), JsonText(EmptyObject), GeminiReply(Num(7)),
     GeminiReply(Str(WellFormedReply)), GeminiReply(Str(ReplyWithoutCause))}

PredictBodies ==
    {Garbage, JsonText(JsonNull), JsonText(EmptyObject),
     JsonText(JsonObject("AnalysisResult", Undefined, Undefined)),
     JsonText(JsonObject("HTTPException", Str(<<>>), Undefined)),
     JsonText(JsonObject("HTTPException", Str(<<"bad file type">>), Undefined)),
     JsonText(JsonObject("RequestValidationError", ObjArray(1), Undefined))}

HealthBodies ==
    {Garbage, JsonText(JsonNull),
     JsonText(JsonObject("health", Undefined, Undefined))}

\* The reply texts of ParseSpec: up to MaxSections sections, each an optional
\* label followed by some content.
Contents == {<<>>, <<" ">>, <<"\n", "x", " ">>}
Sections ==
    {p \o c : p \in {<<>>} \cup {<<l>> : l \in LabelTokens}, c \in Contents}

RECURSIVE Texts(_)
Texts(n) ==
    IF n = 0 THEN {<<>>}
    ELSE LET shorter == Texts(n - 1)
         IN shorter \cup {t \o s : t \in shorter, s \in Sections}

ParseBodies == GeminiBodies \cup {GeminiReply(Str(t)) : t \in Texts(MaxSections)}
ParseClassifications == {"Mild", "constructor"}

-----------------------------------------------------------------------------
(* Steps shared by the three functions *)

\* A call settles: its promise resolves or rejects.
Settle(call, outcome, logged) ==
    [call EXCEPT !.pc = "done", !.outcome = outcome,
                 !.log = call.log \o logged]

\* fetch(url, init): one request goes out and the call suspends on it.
Fetch(c, fn, arg, req) ==
    /\ calls[c].pc = "idle"
    /\ \A d \in CallIds : d < c => calls[d].pc # "idle"
    /\ calls' = [calls EXCEPT ![c] =
                    [IdleCall EXCEPT !.fn = fn, !.arg = arg, !.pc = "fetch",
                                     !.sent = 1]]
    /\ net' = net \cup {req}

\* What `await fetch(...)` can give: a rejection, or a response with some
\* status.
FetchResults ==
    {[fetch |-> "error", status |-> 0]}
      \cup {[fetch |-> "response", status |-> st] : st \in Statuses}

Received(f) == [NoResponse EXCEPT !.fetch = f.fetch, !.status = f.status]

-----------------------------------------------------------------------------
(* getGeminiAssessment, api.ts lines 32-94 *)

\* The prompt names the classification; probability.toFixed(1) reaches the
\* prompt only, and the prompt reaches the request only.
Prompt(classification) ==
    <<"You are a diabetic retinopathy specialist. A patient's retinal scan has been analyzed and detected as \"",
      classification, "\"">>

InvokeGemini(c, classification) ==
    Fetch(c, "getGeminiAssessment", classification,
          Request(c, "POST", GeminiEndpoint, Prompt(classification)))

\* A catch block that rethrows, as analyzeImage's does.
GeminiFallbackRethrow(call, warning) ==
    Settle(call, Rejected(NetworkError), <<warning>>)

\* The classification kept in a module-level variable that every invocation
\* overwrites.
GeminiFallbackShared(call, warning) ==
    LET latest == CHOOSE c \in CallIds :
                    /\ calls[c].pc # "idle"
                    /\ \A d \in CallIds : calls[d].pc # "idle" => d <= c
    IN Settle(call, Resolved(getFallbackAssessment(calls[latest].arg)),
              <<warning>>)

\* The catch block, and the branch for a status that is not ok.
GeminiFallback(call, warning) ==
    Settle(call, Resolved(getFallbackAssessment(call.arg)), <<warning>>)

\* data.candidates?.[0]?.content?.parts?.[0]?.text || ""
CandidateText(data) == IF Truthy(data.text) THEN data.text ELSE Str(<<>>)

\* A second attempt after a failed first one.
GeminiOnFetchRetry(c, f) ==
    /\ calls[c].fn = "getGeminiAssessment"
    /\ calls[c].pc = "fetch"
    /\ LET call == [calls[c] EXCEPT !.resp = Received(f)]
           failed == f.fetch = "error" \/ ~Ok(f.status)
       IN /\ \E r \in net :
               /\ r.owner = c
               /\ net' = IF failed /\ call.sent < 2 THEN net ELSE net \ {r}
          /\ calls' = [calls EXCEPT ![c] =
               IF failed /\ call.sent < 2
               THEN [call EXCEPT !.sent = call.sent + 1]
               ELSE IF failed
               THEN Settle(call, Resolved(getFallbackAssessment(call.arg)), <<>>)
               ELSE [call EXCEPT !.pc = "json", !.resp.read = TRUE]]

\* Lines 49-75: the fetch settles and the body runs on to response.json().
GeminiOnFetch(c, f) ==
    /\ calls[c].fn = "getGeminiAssessment"
    /\ calls[c].pc = "fetch"
    /\ \E r \in net :
         /\ r.owner = c
         /\ net' = net \ {r}
    /\ LET call == [calls[c] EXCEPT !.resp = Received(f)]
       IN calls' = [calls EXCEPT ![c] =
            IF f.fetch = "error"
            THEN GeminiFallback(call, "warn: Gemini API unavailable, using fallback assessment")
            ELSE IF ~Ok(f.status)
            THEN GeminiFallback(call, "warn: Gemini API returned status, using fallback assessment")
            ELSE [call EXCEPT !.pc = "json", !.resp.read = TRUE]]

\* Lines 77-93: response.json() settles; the text is parsed.
GeminiOnJson(c, body) ==
    /\ calls[c].fn = "getGeminiAssessment"
    /\ calls[c].pc = "json"
    /\ UNCHANGED net
    /\ LET call == [calls[c] EXCEPT !.resp.body = body]
           unavailable == "warn: Gemini API unavailable, using fallback assessment"
       IN calls' = [calls EXCEPT ![c] =
            IF ~body.wellFormed THEN GeminiFallback(call, unavailable)
            ELSE IF body.value.t = "null" THEN GeminiFallback(call, unavailable)
            ELSE IF CandidateText(body.value).t # "string"
            THEN GeminiFallback(call, unavailable)
            ELSE Settle(call, Resolved(ParseAssessment(CandidateText(body.value).s)),
                        <<>>)]

-----------------------------------------------------------------------------
(* analyzeImage, api.ts lines 140-163 *)

\* new FormData() with the file appended under the field name "file".
FormData(file) == <<"file", file>>

InvokeAnalyze(c, file) ==
    Fetch(c, "analyzeImage", file,
          Request(c, "POST", PredictEndpoint, FormData(file)))

\* A catch block that returns an empty AnalysisResult instead of throwing.
AnalyzeSwallow(call, e) ==
    Settle(call, Resolved(JsonObject("AnalysisResult", Undefined, Undefined)),
           <<"error: Error analyzing image:">>)

\* The catch block: console.error, then throw error.
AnalyzeRethrow(call, e) ==
    Settle(call, Rejected(e), <<"error: Error analyzing image:">>)

\* errorData.detail || `Server error: ${response.status}`
ErrorMessage(errorData, status) ==
    IF Truthy(errorData.detail) THEN JsToString(errorData.detail)
    ELSE <<"Server error: ", NumberToString(status)>>

\* Lines 145-152: the fetch settles; on either branch the body is read next.
AnalyzeOnFetch(c, f) ==
    /\ calls[c].fn = "analyzeImage"
    /\ calls[c].pc = "fetch"
    /\ \E r \in net :
         /\ r.owner = c
         /\ net' = net \ {r}
    /\ LET call == [calls[c] EXCEPT !.resp = Received(f)]
       IN calls' = [calls EXCEPT ![c] =
            IF f.fetch = "error" THEN AnalyzeRethrow(call, NetworkError)
            ELSE [call EXCEPT !.pc = "json", !.resp.read = TRUE]]

\* Lines 152-158: response.json() settles, under .catch(() => ({})) when the
\* status is not ok.
AnalyzeOnJson(c, body) ==
    /\ calls[c].fn = "analyzeImage"
    /\ calls[c].pc = "json"
    /\ UNCHANGED net
    /\ LET call == [calls[c] EXCEPT !.resp.body = body]
           status == call.resp.status
           errorData == IF body.wellFormed THEN body.value ELSE EmptyObject
       IN calls' = [calls EXCEPT ![c] =
            IF Ok(status)
            THEN IF body.wellFormed THEN Settle(call, Resolved(body.value), <<>>)
                 ELSE AnalyzeRethrow(call, JsonSyntaxError)
            ELSE IF errorData.t = "null"
                 THEN AnalyzeRethrow(call, NullPropertyError("detail"))
                 ELSE AnalyzeRethrow(call,
                        Error("Error", ErrorMessage(errorData, status)))]

-----------------------------------------------------------------------------
(* checkServerHealth, api.ts lines 169-177 *)

Unhealthy ==
    [t |-> "object", status |-> <<"unhealthy">>,
     message |-> <<"Could not connect to server">>]

InvokeHealth(c) ==
    Fetch(c, "checkServerHealth", "",
          Request(c, "GET", HealthEndpoint, <<>>))

\* The catch block.
HealthFallback(call) ==
    Settle(call, Resolved(Unhealthy), <<"error: Health check failed:">>)

\* The same step with an `if (!response.ok) throw` before the body is read.
HealthOnFetchChecked(c, f) ==
    /\ calls[c].fn = "checkServerHealth"
    /\ calls[c].pc = "fetch"
    /\ \E r \in net :
         /\ r.owner = c
         /\ net' = net \ {r}
    /\ LET call == [calls[c] EXCEPT !.resp = Received(f)]
       IN calls' = [calls EXCEPT ![c] =
            IF f.fetch = "error" \/ ~Ok(f.status) THEN HealthFallback(call)
            ELSE [call EXCEPT !.pc = "json", !.resp.read = TRUE]]

\* Line 171: the fetch settles; the status is not looked at.
HealthOnFetch(c, f) ==
    /\ calls[c].fn = "checkServerHealth"
    /\ calls[c].pc = "fetch"
    /\ \E r \in net :
         /\ r.owner = c
         /\ net' = net \ {r}
    /\ LET call == [calls[c] EXCEPT !.resp = Received(f)]
       IN calls' = [calls EXCEPT ![c] =
            IF f.fetch = "error" THEN HealthFallback(call)
            ELSE [call EXCEPT !.pc = "json", !.resp.read = TRUE]]

\* Line 172: response.json() settles.
HealthOnJson(c, body) ==
    /\ calls[c].fn = "checkServerHealth"
    /\ calls[c].pc = "json"
    /\ UNCHANGED net
    /\ LET call == [calls[c] EXCEPT !.resp.body = body]
       IN calls' = [calls EXCEPT ![c] =
            IF body.wellFormed THEN Settle(call, Resolved(body.value), <<>>)
            ELSE HealthFallback(call)]

-----------------------------------------------------------------------------
(* Specifications *)

Init ==
    /\ calls = [c \in CallIds |-> IdleCall]
    /\ net = {}

Next ==
    \E c \in CallIds :
      \/ \E classification \in Classifications : InvokeGemini(c, classification)
      \/ \E f \in FetchResults : GeminiOnFetch(c, f)
      \/ \E body \in GeminiBodies : GeminiOnJson(c, body)
      \/ \E file \in Files : InvokeAnalyze(c, file)
      \/ \E f \in FetchResults : AnalyzeOnFetch(c, f)
      \/ \E body \in PredictBodies : AnalyzeOnJson(c, body)
      \/ InvokeHealth(c)
      \/ \E f \in FetchResults : HealthOnFetch(c, f)
      \/ \E body \in HealthBodies : HealthOnJson(c, body)

Spec == Init /\ [][Next]_vars

\* The parser alone: one getGeminiAssessment call whose fetch has answered
\* with status 200 and which waits for response.json(); the body is any
\* reply text of the bounded set.
ParseInit ==
    /\ \E classification \in ParseClassifications :
         calls = [c \in CallIds |->
                    IF c = 1
                    THEN [IdleCall EXCEPT
                            !.fn = "getGeminiAssessment",
                            !.arg = classification,
                            !.pc = "json",
                            !.sent = 1,
                            !.resp = [NoResponse EXCEPT !.fetch = "response",
                                                        !.status = 200,
                                                        !.read = TRUE]]
                    ELSE IdleCall]
    /\ net = {}

ParseNext ==
    /\ calls[1].pc = "json"
    /\ \E body \in ParseBodies : GeminiOnJson(1, body)

ParseSpec == ParseInit /\ [][ParseNext]_vars

\* The fallback table alone: one getGeminiAssessment call, for any label of
\* the bounded set, whose request fails in each of the ways that end in
\* getFallbackAssessment.
FallbackInit ==
    /\ \E classification \in FallbackClassifications :
         calls = [c \in CallIds |->
                    IF c = 1
                    THEN [IdleCall EXCEPT
                            !.fn = "getGeminiAssessment",
                            !.arg = classification,
                            !.pc = "fetch",
                            !.sent = 1]
                    ELSE IdleCall]
    /\ net = {Request(1, "POST", GeminiEndpoint, Prompt(calls[1].arg))}

FallbackNext ==
    \/ \E f \in FetchResults : GeminiOnFetch(1, f)
    \/ \E body \in {Garbage, JsonText(JsonNull)} : GeminiOnJson(1, body)

FallbackSpec == FallbackInit /\ [][FallbackNext]_vars

-----------------------------------------------------------------------------
(* Vocabulary of the properties *)

Done(c) == calls[c].pc = "done"
IsGemini(c) == calls[c].fn = "getGeminiAssessment"
IsAnalyze(c) == calls[c].fn = "analyzeImage"
IsHealth(c) == calls[c].fn = "checkServerHealth"

FetchFailed(resp) == resp.fetch = "error"
GotStatus(resp) == resp.fetch = "response"
BadStatus(resp) == GotStatus(resp) /\ ~(resp.status >= 200 /\ resp.status <= 299)
GoodStatus(resp) == GotStatus(resp) /\ resp.status >= 200 /\ resp.status <= 299
\* response.json() was awaited and gave a value.
Decoded(resp) == resp.read /\ resp.body.wellFormed

Min(S) == CHOOSE x \in S : \A y \in S : x <= y
Max(S) == CHOOSE x \in S : \A y \in S : y <= x
Blank(s) == \A i \in 1..Len(s) : s[i] \in SpaceTokens
\* s without its leading and trailing whitespace.
Stripped(s) ==
    IF Blank(s) THEN <<>>
    ELSE LET inked == {i \in 1..Len(s) : s[i] \notin SpaceTokens}
         IN SubSeq(s, Min(inked), Max(inked))

Positions(text, labels) == {i \in 1..Len(text) : text[i] \in labels}

\* The decoded body carries a candidate text that is a string.
HasReplyText(resp) ==
    /\ Decoded(resp)
    /\ resp.body.value.t = "object"
    /\ resp.body.value.text.t = "string"
ReplyText(resp) == resp.body.value.text.s

\* The decoded body has a shape on which the parse code throws: null (a
\* property of null is read) or a candidate text that is truthy and no string
\* (it has no match method).
ParsingThrows(resp) ==
    /\ Decoded(resp)
    /\ \/ resp.body.value.t = "null"
       \/ /\ resp.body.value.t = "object"
          /\ resp.body.value.text.t \in {"number", "array"}
          /\ resp.body.value.text # Num(0)

\* The call returned from the return statement of lines 85-89: it settled
\* without the warning that both fallback branches write.
ParsePathTaken(c) == IsGemini(c) /\ Done(c) /\ calls[c].log = <<>>

-----------------------------------------------------------------------------
(* C1 *)

\* C1: getGeminiAssessment never rejects; when the status is not a success
\* status, or the fetch, the JSON decoding or the parsing throws, it resolves
\* to exactly getFallbackAssessment(classification), and the body of a
\* response with a non-success status is never read.
C1_GeminiNeverRejects ==
    \A c \in CallIds :
      IsGemini(c) =>
        LET call == calls[c]
            resp == call.resp
        IN /\ call.outcome.kind # "rejected"
           /\ Done(c) => call.outcome.kind = "resolved"
           /\ BadStatus(resp) => ~resp.read /\ Done(c)
           /\ Done(c) /\ (\/ FetchFailed(resp)
                          \/ BadStatus(resp)
                          \/ (resp.read /\ ~resp.body.wellFormed)
                          \/ ParsingThrows(resp))
                => call.outcome = Resolved(getFallbackAssessment(call.arg))

\* Two overlapping calls have fallen back: one on a non-success status, one
\* on a body that is not JSON.
C1_Witness ==
    \E c, d \in CallIds :
      /\ IsGemini(c) /\ Done(c) /\ BadStatus(calls[c].resp)
      /\ IsGemini(d) /\ Done(d) /\ GoodStatus(calls[d].resp)
      /\ calls[d].resp.read /\ ~calls[d].resp.body.wellFormed
      /\ calls[c].outcome = Resolved(getFallbackAssessment(calls[c].arg))
      /\ calls[d].outcome = Resolved(getFallbackAssessment(calls[d].arg))

-----------------------------------------------------------------------------
(* C2 *)

\* C2: analyzeImage resolves only when the fetch gave a success status and the
\* body decoded, and then to the decoded body unchanged; on a network failure,
\* a non-success status or an undecodable success body it rejects with the
\* error, and never resolves to a substituted result.
C2_AnalyzeResolvesOnlyOnSuccess ==
    \A c \in CallIds :
      IsAnalyze(c) /\ Done(c) =>
        LET call == calls[c]
            resp == call.resp
            success == GoodStatus(resp) /\ Decoded(resp)
        IN /\ call.outcome.kind \in {"resolved", "rejected"}
           /\ call.outcome.kind = "resolved" <=> success
           /\ success => call.outcome = Resolved(resp.body.value)
           /\ FetchFailed(resp) => call.outcome = Rejected(NetworkError)
           /\ GoodStatus(resp) /\ ~Decoded(resp)
                => call.outcome = Rejected(JsonSyntaxError)

\* One call has resolved to the decoded AnalysisResult and an overlapping one
\* has rejected with the network error.
C2_Witness ==
    \E c, d \in CallIds :
      /\ IsAnalyze(c) /\ Done(c) /\ GoodStatus(calls[c].resp)
      /\ calls[c].outcome =
           Resolved(JsonObject("AnalysisResult", Undefined, Undefined))
      /\ IsAnalyze(d) /\ Done(d) /\ FetchFailed(calls[d].resp)
      /\ calls[d].outcome = Rejected(NetworkError)

-----------------------------------------------------------------------------
(* C3 *)

\* The decoded error body is an object with a `detail` member.
HasDetail(resp) ==
    /\ Decoded(resp)
    /\ resp.body.value.t = "object"
    /\ resp.body.value.detail.t # "undefined"

ServerErrorMessage(status) == <<"Server error: ", NumberToString(status)>>

\* C3: on a non-success status the rejection's message equals the body's
\* `detail` whenever the body decodes and has that member, and equals
\* "Server error: <status>" exactly when the body cannot be decoded or the
\* member is absent.
C3_MessageIsDetailOrServerError ==
    \A c \in CallIds :
      IsAnalyze(c) /\ Done(c) /\ BadStatus(calls[c].resp) =>
        LET call == calls[c]
            resp == call.resp
        IN /\ call.outcome.kind = "rejected"
           /\ HasDetail(resp)
                => Str(call.outcome.error.message) = resp.body.value.detail
           /\ call.outcome.error.message = ServerErrorMessage(resp.status)
                <=> ~HasDetail(resp)

-----------------------------------------------------------------------------
(* C4 *)

\* C4: for every classification that is none of the five known labels, names
\* of built-in object members included, getFallbackAssessment returns the
\* generic assessment: its description contains the label and its remedy is
\* the generic remedy.
C4_FallbackTotal ==
    \A c \in CallIds :
      IsGemini(c) /\ Done(c) /\ calls[c].arg \notin KnownLabels =>
        LET v == calls[c].outcome.value
        IN /\ v.t = "assessment"
           /\ \E i \in 1..Len(v.description) : v.description[i] = calls[c].arg
           /\ v.remedy = GenericRemedy

-----------------------------------------------------------------------------
(* C5 *)

\* The reply has one DESCRIPTION: label and, after it, one REMEDY: label,
\* each followed by text that is not blank, and no CAUSE: label.
DescriptionAndRemedyOnly(text) ==
    /\ Cardinality(Positions(text, DescriptionLabels)) = 1
    /\ Cardinality(Positions(text, RemedyLabels)) = 1
    /\ Positions(text, CauseLabels) = {}
    /\ LET d == Min(Positions(text, DescriptionLabels))
           r == Min(Positions(text, RemedyLabels))
       IN /\ d < r
          /\ ~Blank(SubSeq(text, d + 1, r - 1))
          /\ ~Blank(SubSeq(text, r + 1, Len(text)))

\* C5: on a reply with a DESCRIPTION: and a REMEDY: section and no CAUSE:
\* section, cause is "Cause assessment not available.", description is the
\* trimmed text between DESCRIPTION: and the next label (without the REMEDY:
\* label and its text) and remedy is the trimmed text after REMEDY:.
C5_MissingCauseKeepsOthers ==
    \A c \in CallIds :
      (/\ ParsePathTaken(c)
       /\ HasReplyText(calls[c].resp)
       /\ DescriptionAndRemedyOnly(ReplyText(calls[c].resp)))
      => LET text == ReplyText(calls[c].resp)
             d == Min(Positions(text, DescriptionLabels))
             r == Min(Positions(text, RemedyLabels))
             v == calls[c].outcome.value
         IN /\ v.cause = DefaultCause
            /\ v.description = Stripped(SubSeq(text, d + 1, r - 1))
            /\ v.remedy = Stripped(SubSeq(text, r + 1, Len(text)))

-----------------------------------------------------------------------------
(* C6 *)

\* The reply is whitespace, a DESCRIPTION: label, a, a CAUSE: label, b, a
\* REMEDY: label, c, with the labels in any letter case and no label in a, b
\* or c.
ThreeSections(text) ==
    LET labelled == Positions(text, LabelTokens)
    IN /\ Cardinality(labelled) = 3
       /\ LET i == Min(labelled)
              k == Max(labelled)
              j == CHOOSE m \in labelled : m # i /\ m # k
          IN /\ text[i] \in DescriptionLabels
             /\ text[j] \in CauseLabels
             /\ text[k] \in RemedyLabels
             /\ Blank(SubSeq(text, 1, i - 1))

SectionA(text) ==
    LET labelled == Positions(text, LabelTokens)
        i == Min(labelled)
        j == CHOOSE m \in labelled : m # i /\ m # Max(labelled)
    IN SubSeq(text, i + 1, j - 1)
SectionB(text) ==
    LET labelled == Positions(text, LabelTokens)
        k == Max(labelled)
        j == CHOOSE m \in labelled : m # Min(labelled) /\ m # k
    IN SubSeq(text, j + 1, k - 1)
SectionC(text) ==
    SubSeq(text, Max(Positions(text, LabelTokens)) + 1, Len(text))

SectionsReturned(c) ==
    LET text == ReplyText(calls[c].resp)
        v == calls[c].outcome.value
    IN /\ calls[c].outcome.kind = "resolved"
       /\ v = Assessment(Stripped(SectionA(text)), Stripped(SectionB(text)),
                         Stripped(SectionC(text)))
       /\ v.description # DefaultDescription
       /\ v.cause # DefaultCause
       /\ v.remedy # DefaultRemedy
       /\ v # getFallbackAssessment(calls[c].arg)

\* C6 as stated: on a reply DESCRIPTION: a CAUSE: b REMEDY: c, with a, b and
\* c non-empty texts without labels, the result is {trim(a), trim(b),
\* trim(c)}, with no default string and no fallback-table entry.
C6_NonEmptySectionsReturned ==
    \A c \in CallIds :
      (/\ IsGemini(c) /\ Done(c)
       /\ HasReplyText(calls[c].resp)
       /\ ThreeSections(ReplyText(calls[c].resp))
       /\ SectionA(ReplyText(calls[c].resp)) # <<>>
       /\ SectionB(ReplyText(calls[c].resp)) # <<>>
       /\ SectionC(ReplyText(calls[c].resp)) # <<>>)
      => SectionsReturned(c)

\* C6, amended: the same for a, b and c that each hold at least one character
\* that is not whitespace.
C6_InkedSectionsReturned ==
    \A c \in CallIds :
      (/\ IsGemini(c) /\ Done(c)
       /\ HasReplyText(calls[c].resp)
       /\ ThreeSections(ReplyText(calls[c].resp))
       /\ ~Blank(SectionA(ReplyText(calls[c].resp)))
       /\ ~Blank(SectionB(ReplyText(calls[c].resp)))
       /\ ~Blank(SectionC(ReplyText(calls[c].resp))))
      => SectionsReturned(c)

\* A reply of that form has been parsed whose labels are not all in upper
\* case and whose sections carry whitespace that the result has lost.
C6_Witness ==
    \E c \in CallIds :
      /\ IsGemini(c) /\ Done(c)
      /\ HasReplyText(calls[c].resp)
      /\ LET text == ReplyText(calls[c].resp)
         IN /\ ThreeSections(text)
            /\ ~Blank(SectionA(text)) /\ ~Blank(SectionB(text))
            /\ ~Blank(SectionC(text))
            /\ \E i \in 1..Len(text) :
                 text[i] \in {"description:", "cause:", "Remedy:"}
            /\ Stripped(SectionA(text)) # SectionA(text)
            /\ calls[c].outcome.value.description = Stripped(SectionA(text))

-----------------------------------------------------------------------------
(* C10 *)

\* The text after the first of `labels`, up to the first of `stops` that
\* follows it or to the end.
Captured(text, labels, stops) ==
    LET i == Min(Positions(text, labels))
        after == {k \in Positions(text, stops) : k > i}
        end == IF after = {} THEN Len(text) + 1 ELSE Min(after)
    IN SubSeq(text, i + 1, end - 1)

\* The label is absent, or the text captured after it is empty or blank.
NothingCaptured(text, labels, stops) ==
    \/ Positions(text, labels) = {}
    \/ Blank(Captured(text, labels, stops))

-----------------------------------------------------------------------------
(* C7 *)

\* C7: checkServerHealth never rejects; it resolves to {status: "unhealthy",
\* message: "Could not connect to server"} when the fetch or the JSON decoding
\* throws, and otherwise to the decoded body unchanged, whatever the status.
C7_HealthNeverRejects ==
    \A c \in CallIds :
      IsHealth(c) =>
        LET call == calls[c]
            resp == call.resp
        IN /\ call.outcome.kind # "rejected"
           /\ FetchFailed(resp) => call.outcome = Resolved(Unhealthy)
           /\ GotStatus(resp) => resp.read
           /\ Done(c) /\ GotStatus(resp)
                => call.outcome = IF resp.body.wellFormed
                                  THEN Resolved(resp.body.value)
                                  ELSE Resolved(Unhealthy)

\* A response with a non-success status and a JSON body has been passed
\* through, while an overlapping probe whose fetch failed has the fallback.
C7_Witness ==
    \E c, d \in CallIds :
      /\ IsHealth(c) /\ Done(c) /\ BadStatus(calls[c].resp)
      /\ calls[c].resp.body.wellFormed
      /\ calls[c].outcome =
           Resolved(JsonObject("health", Undefined, Undefined))
      /\ IsHealth(d) /\ Done(d) /\ FetchFailed(calls[d].resp)
      /\ calls[d].outcome = Resolved(Unhealthy)

-----------------------------------------------------------------------------
(* C8 *)

\* C8: every invocation issues exactly one HTTP request before it settles; a
\* failed first attempt is final: analyzeImage rejects, getGeminiAssessment
\* and checkServerHealth take their fallback value, and no second request is
\* sent.
C8_NoRetry ==
    \A c \in CallIds :
      LET call == calls[c]
          resp == call.resp
          inFlight == {r \in net : r.owner = c}
      IN /\ call.sent = IF call.pc = "idle" THEN 0 ELSE 1
         /\ Cardinality(inFlight) = IF call.pc = "fetch" THEN 1 ELSE 0
         /\ FetchFailed(resp)
              => /\ Done(c)
                 /\ IsAnalyze(c) => call.outcome = Rejected(NetworkError)
                 /\ IsGemini(c)
                      => call.outcome =
                           Resolved(getFallbackAssessment(call.arg))
                 /\ IsHealth(c) => call.outcome = Resolved(Unhealthy)
         /\ BadStatus(resp) /\ IsGemini(c)
              => /\ Done(c)
                 /\ call.outcome = Resolved(getFallbackAssessment(call.arg))
         /\ BadStatus(resp) /\ IsAnalyze(c) /\ Done(c)
              => call.outcome.kind = "rejected"

\* Two overlapping calls have each failed on their one request and settled:
\* analyzeImage rejected, getGeminiAssessment fell back.
C8_Witness ==
    \E c, d \in CallIds :
      /\ IsAnalyze(c) /\ Done(c) /\ FetchFailed(calls[c].resp)
      /\ calls[c].outcome.kind = "rejected" /\ calls[c].sent = 1
      /\ IsGemini(d) /\ Done(d) /\ FetchFailed(calls[d].resp)
      /\ calls[d].outcome.kind = "resolved" /\ calls[d].sent = 1
      /\ net = {}

-----------------------------------------------------------------------------
(* C9 *)

\* What a call that runs alone settles with, from its own arguments and the
\* answer to its own request.
AloneGemini(arg, resp) ==
    IF GoodStatus(resp) /\ HasReplyText(resp)
    THEN Resolved(ParseAssessment(ReplyText(resp)))
    ELSE IF GoodStatus(resp) /\ Decoded(resp)
              /\ resp.body.value.t = "object"
              /\ ~Truthy(resp.body.value.text)
    THEN Resolved(ParseAssessment(<<>>))
    ELSE Resolved(getFallbackAssessment(arg))

AloneAnalyze(arg, resp) ==
    IF FetchFailed(resp) THEN Rejected(NetworkError)
    ELSE IF GoodStatus(resp)
    THEN IF Decoded(resp) THEN Resolved(resp.body.value)
         ELSE Rejected(JsonSyntaxError)
    ELSE IF ~Decoded(resp)
    THEN Rejected(Error("Error", ServerErrorMessage(resp.status)))
    ELSE IF resp.body.value.t = "null"
    THEN Rejected(NullPropertyError("detail"))
    ELSE Rejected(Error("Error", ErrorMessage(resp.body.value, resp.status)))

AloneHealth(arg, resp) ==
    IF GotStatus(resp) /\ Decoded(resp) THEN Resolved(resp.body.value)
    ELSE Resolved(Unhealthy)

Alone(call) ==
    CASE call.fn = "getGeminiAssessment" -> AloneGemini(call.arg, call.resp)
      [] call.fn = "analyzeImage" -> AloneAnalyze(call.arg, call.resp)
      [] call.fn = "checkServerHealth" -> AloneHealth(call.arg, call.resp)

\* C9: overlapping calls do not interfere: under every interleaving of the
\* round trips, each call settles with what its own arguments and the answer
\* to its own request determine, as if it had run alone, and every request in
\* flight is the one its call built from its own arguments.
C9_NoInterference ==
    /\ \A c \in CallIds : Done(c) => calls[c].outcome = Alone(calls[c])
    /\ \A r \in net :
         /\ calls[r.owner].pc = "fetch"
         /\ r.payload =
              CASE IsGemini(r.owner) -> Prompt(calls[r.owner].arg)
                [] IsAnalyze(r.owner) -> FormData(calls[r.owner].arg)
                [] IsHealth(r.owner) -> <<>>

\* The second of two getGeminiAssessment calls for different classifications
\* has fallen back while the first is still waiting for its body.
C9_Witness ==
    /\ IsGemini(1) /\ calls[1].pc = "json"
    /\ IsGemini(2) /\ Done(2)
    /\ calls[1].arg # calls[2].arg
    /\ BadStatus(calls[2].resp)
    /\ calls[2].outcome = Resolved(getFallbackAssessment(calls[2].arg))

=============================================================================
